---- MODULE Spec2Model ----
(***************************************************************************)
(* Model of src/text_mining.py: the batch pipeline                         *)
(*   raw text -> normalize_text -> tokenize -> filter_tokens ->            *)
(*   count_tokens -> save_outputs (-> write_run_log)                       *)
(* together with the output directory it writes into.                      *)
(*                                                                         *)
(* A text is a sequence of characters, a character a one-element string    *)
(* (or a short name for a non-ASCII code point: "rsquo" is U+2019, "fw1"   *)
(* is U+FF11 FULLWIDTH DIGIT ONE).  A token is a sequence of characters.   *)
(* A data frame is a sequence of rows [word |-> token, total |-> count].   *)
(* A file's content is a sequence of lines, a line a sequence of strings.  *)
(***************************************************************************)
EXTENDS Naturals, Sequences, FiniteSets, TLC

VARIABLES
    pc,            \* position of the run inside main / save_outputs
    runs,          \* number of the current invocation of main (the clock)
    input,         \* data/customer_support_text_corpus.txt: [exists, text]
    nltk_english,  \* stopwords.words("english") of the installed corpus
    min_len,       \* filter_tokens' min_len
    threshold,     \* save_outputs' threshold
    argsort_ties,  \* how this build's quicksort argsort orders equal keys
    dir_exists,    \* whether OUTPUT_DIR exists
    files,         \* OUTPUT_DIR: file name -> content
    written,       \* names of the files the current run has written
    stages,        \* processing stages the current run has executed
    error,         \* the exception main died with, if any
    raw_text,      \* main's raw_text
    sw,            \* main's sw
    tokens,        \* main's tokens
    freq_df,       \* main's freq_df
    df_ge,         \* save_outputs' df_ge
    prev           \* the CSVs of the previous run, when it read the same input

vars == <<pc, runs, input, nltk_english, min_len, threshold, argsort_ties,
          dir_exists, files, written, stages, error, raw_text, sw, tokens,
          freq_df, df_ge, prev>>

----------------------------------------------------------------------------
(* Bounds of the model *)

MaxTextLen == 5
MaxRerunTextLen == 3
MaxTokTextLen == 4
MaxRuns == 2

(* Characters the inputs are drawn from *)
PipeChars == {"g", "O", " ", "rsquo"}
RerunChars == {"g", "O", " "}
TokChars == {"a", "B", "1", "fw1", "'", "rsquo", " "}

RECURSIVE TextsUpTo(_, _)
TextsUpTo(chars, n) ==
    IF n = 0 THEN {<<>>}
    ELSE LET shorter == TextsUpTo(chars, n - 1)
         IN  shorter \cup {Append(t, c) : t \in {s \in shorter : Len(s) = n - 1}, c \in chars}

MinLens == {1, 2, 4}
Thresholds == {2, 250}
NltkCorpora == {{}, {<<"o">>}}
TiePolicies == {"encounter", "reverse"}

----------------------------------------------------------------------------
(* Paths *)

PROJECT_ROOT == "customer-support-text-mining"
DATA_DIR == PROJECT_ROOT \o "/data"
OUTPUT_DIR == PROJECT_ROOT \o "/output"
DEFAULT_INPUT_FILE == "customer_support_text_corpus.txt"
input_path == DATA_DIR \o "/" \o DEFAULT_INPUT_FILE

csv_all_path == OUTPUT_DIR \o "/token_frequencies_all.csv"
csv_ge_path(thr) == OUTPUT_DIR \o "/token_frequencies_ge_" \o ToString(thr) \o ".csv"
xlsx_path == OUTPUT_DIR \o "/text_mining_results.xlsx"
txt_path == OUTPUT_DIR \o "/summary_top20.txt"
png_path(thr) == OUTPUT_DIR \o "/top_tokens_ge_" \o ToString(thr) \o ".png"
note_path == OUTPUT_DIR \o "/chart_note.txt"
log_path == OUTPUT_DIR \o "/run_log.txt"

----------------------------------------------------------------------------
(* Text processing helpers *)

\* unicodedata.normalize("NFKC", c) on the characters of the model
NFKC(c) == IF c = "fw1" THEN "1" ELSE c

\* .replace of the curly apostrophe and the curly double quotes
ReplaceQuotes(c) ==
    CASE c = "rsquo" -> "'"
      [] c = "ldquo" -> "\""
      [] c = "rdquo" -> "\""
      [] OTHER -> c

normalize_text(text) == [i \in 1..Len(text) |-> ReplaceQuotes(NFKC(text[i]))]

\* str.lower on the characters of the model
LowerChar(c) ==
    CASE c = "B" -> "b"
      [] c = "O" -> "o"
      [] OTHER -> c

lower(text) == [i \in 1..Len(text) |-> LowerChar(text[i])]

\* the class [a-z0-9] on the characters of the model
IsAlnum(c) == c \in {"a", "b", "g", "o", "1"}

\* end of the maximal run [a-z0-9]* starting at i: the first index >= i
\* holding no character of the class
RECURSIVE RunEnd(_, _)
RunEnd(s, i) ==
    IF i <= Len(s) /\ IsAlnum(s[i]) THEN RunEnd(s, i + 1) ELSE i

\* findall with the optional group left out of the pattern: [a-z0-9]+
RECURSIVE findall_runs_only(_, _)
findall_runs_only(s, i) ==
    IF i > Len(s) THEN <<>>
    ELSE IF ~IsAlnum(s[i]) THEN findall_runs_only(s, i + 1)
    ELSE <<SubSeq(s, i, RunEnd(s, i) - 1)>> \o findall_runs_only(s, RunEnd(s, i))

\* re.findall(r"[a-z0-9]+(?:'[a-z0-9]+)?", s) scanning from index i
RECURSIVE findall(_, _)
findall(s, i) ==
    IF i > Len(s) THEN <<>>
    ELSE IF ~IsAlnum(s[i]) THEN findall(s, i + 1)
    ELSE LET e == RunEnd(s, i)
             group == e + 1 <= Len(s) /\ s[e] = "'" /\ IsAlnum(s[e + 1])
             stop == IF group THEN RunEnd(s, e + 1) ELSE e
         IN  <<SubSeq(s, i, stop - 1)>> \o findall(s, stop)

tokenize(text) == findall(lower(text), 1)


\* the set built by build_stopword_set: the corpus list plus the fixed extras
\* (of the extras, the words spelled with the model's characters: "go").
\* ensure_nltk_stopwords leaves the corpus installed; nltk_english is the list
\* it then holds, the same in every run.
ExtraStopwords == {<<"g", "o">>}

build_stopword_set == nltk_english \cup ExtraStopwords

\* keep_token with the stopword test forgotten
keep_token_length_only(t, stop, n) == Len(t) >= n

\* the test of the list comprehension of filter_tokens
keep_token(t, stop, n) == Len(t) >= n /\ t \notin stop

filter_tokens(toks, stop, n) ==
    LET Keep(t) == keep_token(t, stop, n) IN SelectSeq(toks, Keep)

\* Counter replaced by one row per occurrence
Counter_per_occurrence(toks) ==
    [i \in 1..Len(toks) |-> [word |-> toks[i], total |-> 1]]

\* Counter(tokens).items(): one (word, total) per distinct token, in the
\* order of the tokens' first occurrences (dict insertion order)
RECURSIVE Counter(_)
Counter(toks) ==
    IF toks = <<>> THEN <<>>
    ELSE LET n == Len(toks)
             before == Counter(SubSeq(toks, 1, n - 1))
             t == toks[n]
             at == {i \in 1..Len(before) : before[i].word = t}
         IN  IF at = {} THEN Append(before, [word |-> t, total |-> 1])
             ELSE [i \in 1..Len(before) |->
                      IF i \in at THEN [before[i] EXCEPT !.total = @ + 1]
                      ELSE before[i]]

\* an order of equal keys that changes from one process to the next
tie_before_per_run(i, j) == IF runs % 2 = 1 THEN i < j ELSE i > j

\* sort_values is called with the default kind="quicksort", which is not a
\* stable sort: the order of rows with equal totals is whatever the build's
\* argsort gives (insertion order is kept by some builds on short arrays and
\* lost by the partitioning and the vectorized sorts).  It is a function of
\* the array alone: argsort_ties, chosen once, stands for the build.
tie_before(i, j) == IF argsort_ties = "encounter" THEN i < j ELSE i > j

\* row_before with ascending=True
row_before_ascending(df, i, j) ==
    \/ df[i].total < df[j].total
    \/ df[i].total = df[j].total /\ tie_before(i, j)

\* row i of df comes before row j in sort_values("total", ascending=False)
row_before(df, i, j) ==
    \/ df[i].total > df[j].total
    \/ df[i].total = df[j].total /\ tie_before(i, j)

RECURSIVE argsort(_, _)
argsort(df, n) ==
    IF n = 0 THEN <<>>
    ELSE LET s == argsort(df, n - 1)
             pos == Cardinality({a \in 1..Len(s) : row_before(df, s[a], n)})
         IN  SubSeq(s, 1, pos) \o <<n>> \o SubSeq(s, pos + 1, Len(s))

sort_values(df) ==
    LET idx == argsort(df, Len(df)) IN [k \in 1..Len(df) |-> df[idx[k]]]

count_tokens(toks) == sort_values(Counter(toks))

----------------------------------------------------------------------------
(* Output helpers *)

TOP_N == 20
CHART_CAP == 50

head(df, n) == IF Len(df) > n THEN SubSeq(df, 1, n) ELSE df

\* meets_threshold with > for >=
meets_threshold_strict(row, thr) == row.total > thr

\* the test of the boolean mask freq_df["total"] >= threshold
meets_threshold(row, thr) == row.total >= thr

ge_rows(df, thr) ==
    LET Meets(row) == meets_threshold(row, thr) IN SelectSeq(df, Meets)

\* DataFrame.to_csv(index=False): the header, then word,total per row
to_csv(df) ==
    <<<<"word", ",", "total">>>> \o
    [k \in 1..Len(df) |-> df[k].word \o <<",", ToString(df[k].total)>>]

\* DataFrame.to_string(index=False)
to_string(df) ==
    IF df = <<>>
    THEN <<<<"Empty DataFrame">>, <<"Columns: [word, total]">>, <<"Index: []">>>>
    ELSE <<<<"word", " ", "total">>>> \o
         [k \in 1..Len(df) |-> df[k].word \o <<" ", ToString(df[k].total)>>]

\* the two sheets written through pd.ExcelWriter
workbook(all, ge, thr) ==
    <<<<"all_tokens">>>> \o to_csv(all) \o
    <<<<"tokens_ge_" \o ToString(thr)>>>> \o to_csv(ge)

summary_lines(all, ge, thr) ==
    <<<<"Top 20 tokens:">>>> \o to_string(head(all, TOP_N)) \o
    <<<<>>, <<"Tokens with total >= ", ToString(thr), ": ", ToString(Len(ge))>>, <<>>>>

plot_rows(ge) == head(ge, CHART_CAP)

\* has_bars with >= for >, and with 1 for 0
has_bars_always(plot_df) == Len(plot_df) >= 0

has_bars_more_than_one(plot_df) == Len(plot_df) > 1

\* the test that chooses between the chart and the note
has_bars(plot_df) == Len(plot_df) > 0

chart(plot_df, thr) ==
    <<<<"Top tokens (frequency >= ", ToString(thr), ")">>>> \o
    [k \in 1..Len(plot_df) |-> plot_df[k].word \o <<"|", ToString(plot_df[k].total)>>]

chart_note(thr) ==
    <<<<"No tokens met the threshold of ", ToString(thr),
        ", so no chart was generated.">>>>

\* the "Generated outputs:" lines of write_run_log
listed_outputs(thr) ==
    <<csv_all_path, csv_ge_path(thr), xlsx_path, txt_path, png_path(thr), log_path>>

run_log_lines(df, thr, now) ==
    LET ge == ge_rows(df, thr)
        outs == listed_outputs(thr)
    IN  << <<"Customer Support Text Mining - Run Log">>,
           <<"========================================">>,
           <<"Run timestamp: ", ToString(now)>>,
           <<"Project root: ", PROJECT_ROOT>>,
           <<"Input file:    ", input_path>>,
           <<>>,
           <<"Unique tokens (after filtering): ", ToString(Len(df))>>,
           <<"Tokens with total >= ", ToString(thr), ": ", ToString(Len(ge))>>,
           <<>>,
           <<"Top 20 tokens:">> >> \o
        to_string(head(df, TOP_N)) \o
        << <<>>, <<"Generated outputs:">> >> \o
        [k \in 1..Len(outs) |-> <<"- ", outs[k]>>]

\* file_not_found with a message that does not name the path
file_not_found_bare(path) ==
    [exc |-> "FileNotFoundError", msg |-> <<"Input file not found">>]

\* the FileNotFoundError raised by main
file_not_found(path) ==
    [exc |-> "FileNotFoundError",
     msg |-> <<"Input file not found: ", path,
               "Make sure your corpus is located at: ", DATA_DIR \o "/" \o DEFAULT_INPUT_FILE,
               "Current project root is: ", PROJECT_ROOT>>]

NoError == [exc |-> "", msg |-> <<>>]

\* f with name written: Path.write_text, to_csv, savefig overwrite
write(f, name, content) ==
    [n \in DOMAIN f \cup {name} |-> IF n = name THEN content ELSE f[n]]


----------------------------------------------------------------------------
(* Initial states *)

NoPrev == [valid |-> FALSE, csv_all |-> <<>>, csv_ge |-> <<>>]

Inputs(texts) ==
    {[exists |-> FALSE, text |-> <<>>]} \cup {[exists |-> TRUE, text |-> t] : t \in texts}

\* the values a run starts with: nothing read, nothing computed, nothing written
FreshLocals ==
    /\ written = {}
    /\ stages = {}
    /\ error = NoError
    /\ raw_text = <<>>
    /\ sw = {}
    /\ tokens = <<>>
    /\ freq_df = <<>>
    /\ df_ge = <<>>

InitWith(texts) ==
    /\ pc = "main"
    /\ runs = 1
    /\ input \in Inputs(texts)
    /\ nltk_english \in NltkCorpora
    /\ min_len \in MinLens
    /\ threshold \in Thresholds
    /\ argsort_ties \in TiePolicies
    /\ dir_exists = FALSE
    /\ files = <<>>
    /\ prev = NoPrev
    /\ FreshLocals

\* one run of main on a corpus of up to MaxTextLen characters
Init == InitWith(TextsUpTo(PipeChars, MaxTextLen))

\* up to MaxRuns runs of main into the same output directory
InitRuns == InitWith(TextsUpTo(RerunChars, MaxRerunTextLen))

\* a call of normalize_text and tokenize on a text of up to MaxTokTextLen characters
InitTok ==
    /\ pc = "call"
    /\ runs = 1
    /\ input = [exists |-> FALSE, text |-> <<>>]
    /\ nltk_english = {}
    /\ min_len = 4
    /\ threshold = 250
    /\ argsort_ties = "encounter"
    /\ dir_exists = FALSE
    /\ files = <<>>
    /\ prev = NoPrev
    /\ written = {}
    /\ stages = {}
    /\ error = NoError
    /\ raw_text \in TextsUpTo(TokChars, MaxTokTextLen)
    /\ sw = {}
    /\ tokens = <<>>
    /\ freq_df = <<>>
    /\ df_ge = <<>>

config == <<nltk_english, min_len, threshold, argsort_ties>>

----------------------------------------------------------------------------
(* main *)

\* OUTPUT_DIR.mkdir(parents=True, exist_ok=True)
MainMkdir ==
    /\ pc = "main"
    /\ dir_exists' = TRUE
    /\ pc' = "exists"
    /\ UNCHANGED <<runs, input, config, files, written, stages, error, raw_text,
                   sw, tokens, freq_df, df_ge, prev>>

\* if not input_path.exists(): raise FileNotFoundError(...)
MainMissingInput ==
    /\ pc = "exists"
    /\ ~input.exists
    /\ error' = file_not_found(input_path)
    /\ pc' = "failed"
    /\ UNCHANGED <<runs, input, config, dir_exists, files, written, stages,
                   raw_text, sw, tokens, freq_df, df_ge, prev>>

\* raw_text = input_path.read_text(...)
MainRead ==
    /\ pc = "exists"
    /\ input.exists
    /\ raw_text' = input.text
    /\ stages' = stages \cup {"read"}
    /\ pc' = "normalize"
    /\ UNCHANGED <<runs, input, config, dir_exists, files, written, error,
                   sw, tokens, freq_df, df_ge, prev>>

\* raw_text = normalize_text(raw_text)
MainNormalize ==
    /\ pc = "normalize"
    /\ raw_text' = normalize_text(raw_text)
    /\ stages' = stages \cup {"normalize"}
    /\ pc' = "stopwords"
    /\ UNCHANGED <<runs, input, config, dir_exists, files, written, error,
                   sw, tokens, freq_df, df_ge, prev>>

\* sw = build_stopword_set()
MainStopwords ==
    /\ pc = "stopwords"
    /\ sw' = build_stopword_set
    /\ stages' = stages \cup {"stopwords"}
    /\ pc' = "tokenize"
    /\ UNCHANGED <<runs, input, config, dir_exists, files, written, error,
                   raw_text, tokens, freq_df, df_ge, prev>>

\* tokens = tokenize(raw_text)
MainTokenize ==
    /\ pc = "tokenize"
    /\ tokens' = tokenize(raw_text)
    /\ stages' = stages \cup {"tokenize"}
    /\ pc' = "filter"
    /\ UNCHANGED <<runs, input, config, dir_exists, files, written, error,
                   raw_text, sw, freq_df, df_ge, prev>>

\* tokens = filter_tokens(tokens, sw=sw, min_len=...)
MainFilter ==
    /\ pc = "filter"
    /\ tokens' = filter_tokens(tokens, sw, min_len)
    /\ stages' = stages \cup {"filter"}
    /\ pc' = "count"
    /\ UNCHANGED <<runs, input, config, dir_exists, files, written, error,
                   raw_text, sw, freq_df, df_ge, prev>>

\* freq_df = count_tokens(tokens)
MainCount ==
    /\ pc = "count"
    /\ freq_df' = count_tokens(tokens)
    /\ stages' = stages \cup {"count"}
    /\ pc' = "save"
    /\ UNCHANGED <<runs, input, config, dir_exists, files, written, error,
                   raw_text, sw, tokens, df_ge, prev>>

----------------------------------------------------------------------------
(* save_outputs *)

\* mkdir, the two data frames, the two CSVs, the workbook and the summary
SaveTables ==
    /\ pc = "save"
    /\ LET all == freq_df
           ge == ge_rows(freq_df, threshold)
           f1 == write(files, csv_all_path, to_csv(all))
           f2 == write(f1, csv_ge_path(threshold), to_csv(ge))
           f3 == write(f2, xlsx_path, workbook(all, ge, threshold))
           f4 == write(f3, txt_path, summary_lines(all, ge, threshold))
       IN  /\ df_ge' = ge
           /\ files' = f4
           /\ written' = written \cup {csv_all_path, csv_ge_path(threshold),
                                       xlsx_path, txt_path}
    /\ dir_exists' = TRUE
    /\ pc' = "chart"
    /\ UNCHANGED <<runs, input, config, stages, error, raw_text, sw, tokens,
                   freq_df, prev>>

\* if len(plot_df) > 0: ... plt.savefig(png_path, ...)
SaveChart ==
    /\ pc = "chart"
    /\ has_bars(plot_rows(df_ge))
    /\ files' = write(files, png_path(threshold), chart(plot_rows(df_ge), threshold))
    /\ written' = written \cup {png_path(threshold)}
    /\ pc' = "log"
    /\ UNCHANGED <<runs, input, config, dir_exists, stages, error, raw_text, sw,
                   tokens, freq_df, df_ge, prev>>

\* else: (OUTPUT_DIR / "chart_note.txt").write_text(...)
SaveNote ==
    /\ pc = "chart"
    /\ ~has_bars(plot_rows(df_ge))
    /\ files' = write(files, note_path, chart_note(threshold))
    /\ written' = written \cup {note_path}
    /\ pc' = "log"
    /\ UNCHANGED <<runs, input, config, dir_exists, stages, error, raw_text, sw,
                   tokens, freq_df, df_ge, prev>>

\* write_run_log(input_path, freq_df, threshold, OUTPUT_DIR)
WriteRunLog ==
    /\ pc = "log"
    /\ files' = write(files, log_path, run_log_lines(freq_df, threshold, runs))
    /\ written' = written \cup {log_path}
    /\ pc' = "done"
    /\ UNCHANGED <<runs, input, config, dir_exists, stages, error, raw_text, sw,
                   tokens, freq_df, df_ge, prev>>

----------------------------------------------------------------------------
(* The script is run again: the corpus may have been replaced in between,  *)
(* the output directory is the one the earlier runs left.                  *)

Invoke ==
    /\ pc \in {"done", "failed"}
    /\ runs < MaxRuns
    /\ \E next \in Inputs(TextsUpTo(RerunChars, MaxRerunTextLen)) :
          /\ input' = next
          /\ prev' = IF pc = "done" /\ next = input
                     THEN [valid |-> TRUE,
                           csv_all |-> files[csv_all_path],
                           csv_ge |-> files[csv_ge_path(threshold)]]
                     ELSE NoPrev
    /\ runs' = runs + 1
    /\ pc' = "main"
    /\ written' = {}
    /\ stages' = {}
    /\ error' = NoError
    /\ raw_text' = <<>>
    /\ sw' = {}
    /\ tokens' = <<>>
    /\ freq_df' = <<>>
    /\ df_ge' = <<>>
    /\ UNCHANGED <<config, dir_exists, files>>

----------------------------------------------------------------------------
(* Calls of the two text helpers on their own *)

CallNormalizeText ==
    /\ pc = "call"
    /\ raw_text' = normalize_text(raw_text)
    /\ pc' = "normalized"
    /\ UNCHANGED <<runs, input, config, dir_exists, files, written, stages, error,
                   sw, tokens, freq_df, df_ge, prev>>

CallTokenize ==
    /\ pc \in {"call", "normalized"}
    /\ tokens' = tokenize(raw_text)
    /\ pc' = "tokenized"
    /\ UNCHANGED <<runs, input, config, dir_exists, files, written, stages, error,
                   raw_text, sw, freq_df, df_ge, prev>>

----------------------------------------------------------------------------
(* Specifications *)

Next ==
    \/ MainMkdir
    \/ MainMissingInput
    \/ MainRead
    \/ MainNormalize
    \/ MainStopwords
    \/ MainTokenize
    \/ MainFilter
    \/ MainCount
    \/ SaveTables
    \/ SaveChart
    \/ SaveNote
    \/ WriteRunLog

NextRuns == Next \/ Invoke

NextTok == CallNormalizeText \/ CallTokenize

Spec == Init /\ [][Next]_vars

SpecRuns == InitRuns /\ [][NextRuns]_vars

SpecTok == InitTok /\ [][NextTok]_vars


----------------------------------------------------------------------------
(* Helpers of the properties *)

Range(seq) == {seq[i] : i \in 1..Len(seq)}

Occurrences(toks, t) == Cardinality({k \in 1..Len(toks) : toks[k] = t})

FirstIndex(toks, t) == CHOOSE k \in 1..Len(toks) :
                          toks[k] = t /\ \A m \in 1..(k - 1) : toks[m] # t

RECURSIVE SumTotals(_)
SumTotals(df) ==
    IF df = <<>> THEN 0 ELSE df[1].total + SumTotals(Tail(df))

\* the row of df holding word w
RowOf(df, w) == CHOOSE i \in 1..Len(df) : df[i].word = w

\* the count a decimal string stands for
ParseCount(str) == CHOOSE n \in 0..(MaxTextLen + MaxRuns + 2) : ToString(n) = str

\* the totals column of a CSV file
CsvTotals(lines) ==
    [k \in 1..(Len(lines) - 1) |-> ParseCount(lines[k + 1][Len(lines[k + 1])])]

\* the paths listed under "Generated outputs:" in a run log
LoggedOutputs(lines) ==
    {line[2] : line \in {l \in Range(lines) : Len(l) = 2 /\ l[1] = "- "}}

\* the line of the run log reporting the thresholded count
LogReportsGe(lines, n) ==
    \E l \in Range(lines) :
        l = <<"Tokens with total >= ", ToString(threshold), ": ", ToString(n)>>

Counted == "count" \in stages
TablesSaved == pc \in {"chart", "log", "done"}

\* t has the shape [a-z0-9]+ optionally followed by ' and [a-z0-9]+
IsToken(t) ==
    \E k \in 1..Len(t) :
        /\ \A m \in 1..k : IsAlnum(t[m])
        /\ \/ k = Len(t)
           \/ /\ k + 2 <= Len(t)
              /\ t[k + 1] = "'"
              /\ \A m \in (k + 2)..Len(t) : IsAlnum(t[m])

Apostrophes(s) == Cardinality({k \in 1..Len(s) : s[k] = "'"})

----------------------------------------------------------------------------
(* C1: every token of the frequency table built from the filtered tokens   *)
(* is at least min_len long and is not in the stopword set.                *)
C1_TableTokensPassFilter ==
    Counted =>
        \A i \in 1..Len(freq_df) :
            /\ Len(freq_df[i].word) >= min_len
            /\ freq_df[i].word \notin build_stopword_set

\* a stopword long enough to pass the length test was dropped, another token kept
C1_Witness ==
    /\ Counted
    /\ freq_df # <<>>
    /\ \E t \in Range(tokenize(raw_text)) : t \in sw /\ Len(t) >= min_len

(* C2: count_tokens gives one row per distinct token, its total the number *)
(* of occurrences of the token; no duplicate rows; the totals sum to the   *)
(* number of filtered tokens.                                              *)
C2_OneRowPerTokenWithItsCount ==
    Counted =>
        /\ \A i, j \in 1..Len(freq_df) :
              freq_df[i].word = freq_df[j].word => i = j
        /\ {freq_df[i].word : i \in 1..Len(freq_df)} = Range(tokens)
        /\ \A i \in 1..Len(freq_df) :
              freq_df[i].total = Occurrences(tokens, freq_df[i].word)
        /\ SumTotals(freq_df) = Len(tokens)
        /\ (tokens = <<>> => freq_df = <<>>)

\* a table of two rows, one of them counting a repeated token
C2_Witness ==
    /\ Counted
    /\ Len(freq_df) >= 2
    /\ \E i \in 1..Len(freq_df) : freq_df[i].total >= 2

C4_SortedByCountDescending ==
    /\ Counted =>
          \A i \in 1..(Len(freq_df) - 1) : freq_df[i].total >= freq_df[i + 1].total
    /\ TablesSaved =>
          LET totals == CsvTotals(files[csv_all_path])
          IN  /\ Len(totals) = Len(freq_df)
              /\ \A i \in 1..(Len(totals) - 1) : totals[i] >= totals[i + 1]

\* a token met later in the text has the higher count: the sort moved rows
C4_Witness ==
    /\ pc = "done"
    /\ LET c == Counter(tokens)
       IN  \E i, j \in 1..Len(c) : i < j /\ c[i].total < c[j].total

C6_NoteWhenNothingMeetsThreshold ==
    /\ pc \in {"save", "chart", "log"} =>
          ENABLED (SaveTables \/ SaveChart \/ SaveNote \/ WriteRunLog)
    /\ pc = "done" =>
          /\ error = NoError
          /\ IF \A i \in 1..Len(freq_df) : freq_df[i].total < threshold
             THEN /\ note_path \in written
                  /\ note_path \in DOMAIN files
                  /\ png_path(threshold) \notin written
                  /\ LogReportsGe(files[log_path], 0)
             ELSE /\ png_path(threshold) \in written
                  /\ png_path(threshold) \in DOMAIN files
                  /\ note_path \notin written

\* a table that is not empty, all of its counts below the threshold
C6_Witness ==
    /\ pc = "done"
    /\ freq_df # <<>>
    /\ \A i \in 1..Len(freq_df) : freq_df[i].total < threshold
    /\ note_path \in written

(* C7 as stated: the outputs listed in run_log.txt are exactly the files   *)
(* the run wrote.                                                          *)
C7_LogListsWhatWasWritten ==
    pc = "done" => LoggedOutputs(files[log_path]) = written

(* C8: with the input file absent main fails with an error naming the      *)
(* expected path, before any processing stage, and writes no file; only    *)
(* the output directory has been created.                                  *)
C8_MissingInputFailsBeforeProcessing ==
    /\ (~input.exists /\ pc \notin {"main", "exists"}) => pc = "failed"
    /\ pc = "failed" =>
          /\ ~input.exists
          /\ error.exc = "FileNotFoundError"
          /\ input_path \in Range(error.msg)
          /\ stages = {}
          /\ written = {}
          /\ DOMAIN files = {}
          /\ raw_text = <<>> /\ sw = {} /\ tokens = <<>> /\ freq_df = <<>>
          /\ dir_exists

\* the run has died on the missing input
C8_Witness ==
    /\ pc = "failed"
    /\ ~input.exists
    /\ dir_exists

(* C9: tokenize returns, in order of occurrence, the pieces of the         *)
(* lowercased text of the shape alphanumerics ['alphanumerics]: every      *)
(* alphanumeric character lies in a token, tokens are separated by at      *)
(* least one character, a token without an apostrophe is not directly      *)
(* followed by 'alphanumeric, a text that is one contraction is one token, *)
(* and the empty text gives no token.                                      *)
C9_TokenizeContract ==
    pc = "tokenized" =>
        LET s == lower(raw_text)
            n == Len(tokens)
            End(st, i) == st[i] + Len(tokens[i]) - 1
        IN  /\ \A i \in 1..n : IsToken(tokens[i])
            /\ \E st \in [1..n -> 1..Len(s)] :
                  /\ \A i \in 1..n :
                        /\ End(st, i) <= Len(s)
                        /\ SubSeq(s, st[i], End(st, i)) = tokens[i]
                        /\ (Apostrophes(tokens[i]) = 0 /\ End(st, i) + 2 <= Len(s)) =>
                              ~(s[End(st, i) + 1] = "'" /\ IsAlnum(s[End(st, i) + 2]))
                  /\ \A i \in 1..(n - 1) : End(st, i) + 1 < st[i + 1]
                  /\ \A k \in 1..Len(s) :
                        IsAlnum(s[k]) => \E i \in 1..n : st[i] <= k /\ k <= End(st, i)
            /\ (IsToken(s) => tokens = <<s>>)
            /\ (s = <<>> => tokens = <<>>)

\* a contraction kept whole, and an apostrophe that separates
C9_Witness ==
    /\ pc = "tokenized"
    /\ \E i \in 1..Len(tokens) : Apostrophes(tokens[i]) = 1
    /\ LET joined == [i \in 1..Len(tokens) |-> Apostrophes(tokens[i])]
       IN  Apostrophes(lower(raw_text)) > Cardinality({i \in 1..Len(tokens) : joined[i] = 1})

(* C10 as stated: after every completed run the output directory holds     *)
(* exactly one of the chart and chart_note.txt, the chart iff the          *)
(* thresholded subset is non-empty.                                        *)
C10_DirectoryHoldsExactlyOne ==
    pc = "done" =>
        /\ (png_path(threshold) \in DOMAIN files) = (df_ge # <<>>)
        /\ (note_path \in DOMAIN files) = (df_ge = <<>>)

(* C10 amended: every completed run writes exactly one of the chart and    *)
(* chart_note.txt, the chart iff its thresholded subset is non-empty, and  *)
(* the output directory then holds that file; it holds the other one only  *)
(* when an earlier run left it there.                                      *)
C10_RunWritesExactlyOne ==
    pc = "done" =>
        /\ (png_path(threshold) \in written) = (df_ge # <<>>)
        /\ (note_path \in written) = (df_ge = <<>>)
        /\ written \subseteq DOMAIN files
        /\ runs = 1 =>
              /\ (png_path(threshold) \in DOMAIN files) = (df_ge # <<>>)
              /\ (note_path \in DOMAIN files) = (df_ge = <<>>)

\* a later run wrote the chart beside the note an earlier run left
C10_Witness ==
    /\ pc = "done"
    /\ runs > 1
    /\ png_path(threshold) \in written
    /\ note_path \in DOMAIN files

====
